---- MODULE Spec2Model ----
(***************************************************************************)
(* The freeze / remove index bookkeeping and the Hamiltonian reduction     *)
(* pipeline of tutorials/chemistry/1_programmatic_approach.ipynb.          *)
(*                                                                         *)
(* The state is the notebook's variables after the cell that defines       *)
(* freeze_list, remove_list, map_type, num_particles and num_spin_orbitals *)
(* has run; each action is one statement (or one if-block) of the          *)
(* normalization / reduction cell, taken in program order.  The operator   *)
(* library (FermionicOperator, Z2Symmetries) is external: ferOp and        *)
(* qubitOp are kept as the sequence of library calls that built them,      *)
(* each with the index list or the counter it was handed.                  *)
(***************************************************************************)
EXTENDS Integers, Sequences, FiniteSets, TLC

VARIABLES pc, molecule, map_type, raw_freeze_list, raw_remove_list,
          freeze_list, remove_list, num_particles, num_spin_orbitals,
          energy_shift, qubit_reduction, ferOp, qubitOp, HF_state, var_form

vars == <<pc, molecule, map_type, raw_freeze_list, raw_remove_list,
          freeze_list, remove_list, num_particles, num_spin_orbitals,
          energy_shift, qubit_reduction, ferOp, qubitOp, HF_state, var_form>>

(* ------------------------------ bounds --------------------------------- *)

\* largest orbital count of the enumerated molecules
MaxOrbitals == 3
\* largest number of raw indices in freeze_list and remove_list together
MaxIndices == 3

(* --------------------------- the notebook's run ------------------------ *)

\* LiH in sto3g: 6 orbitals (12 spin orbitals), 4 electrons
NotebookMolecule == [num_orbitals |-> 6, num_alpha |-> 2, num_beta |-> 2]
NotebookFreezeList == <<0>>
NotebookRemoveList == <<-3, -2>>
NotebookMapType == "parity"

(* ------------------------------ helpers -------------------------------- *)

\* the set of all sequences over S of length at most n
RECURSIVE SeqsUpTo(_, _)
SeqsUpTo(S, n) ==
    IF n = 0 THEN {<<>>}
    ELSE LET shorter == SeqsUpTo(S, n - 1)
         IN  shorter \cup {Append(s, x) : s \in {t \in shorter : Len(t) = n - 1}, x \in S}

Range(s) == {s[i] : i \in 1..Len(s)}

\* values a raw index can take for n orbitals: 0..n-1, or -n..-1 from the end
RawIndices(n) == (-n)..(n - 1)

MapTypes == {"parity", "jordan_wigner"}

\* energy_shift is a float: "0.0", some other float the library returned,
\* or not yet assigned
ShiftValues == {"0.0", "nonzero"}

(* ---------------- index normalization, statement by statement ---------- *)

\* a variant that reflects a negative index instead of counting it from the end
ToPositiveReflected(list, n) ==
    [i \in 1..Len(list) |-> IF list[i] < 0 THEN -list[i] ELSE list[i]]

\* [x % molecule.num_orbitals for x in list]
ToPositive(list, n) == [i \in 1..Len(list) |-> list[i] % n]

\* a variant that leaves the remove indices in the original numbering
ShiftNotApplied(rl, fl) == rl

\* [x - len(freeze_list) for x in remove_list]
ShiftAfterFreezing(rl, fl) == [i \in 1..Len(rl) |-> rl[i] - Len(fl)]

\* a variant whose beta offset ignores the frozen orbitals
MirrorRemoveListFullOffset(rl, fl, n) == rl \o [i \in 1..Len(rl) |-> rl[i] + n]

\* remove_list += [x + molecule.num_orbitals - len(freeze_list) for x in remove_list]
MirrorRemoveList(rl, fl, n) == rl \o [i \in 1..Len(rl) |-> rl[i] + n - Len(fl)]

\* freeze_list += [x + molecule.num_orbitals for x in freeze_list]
MirrorFreezeList(fl, n) == fl \o [i \in 1..Len(fl) |-> fl[i] + n]

(* ------------------------------- Init ---------------------------------- *)

\* the driver is run with spin=0, so the molecule is closed-shell
Molecules ==
    UNION {{[num_orbitals |-> n, num_alpha |-> e, num_beta |-> e] : e \in 0..n} :
              n \in 1..MaxOrbitals}

InitInputs(mol, fl, rl, mt) ==
    /\ molecule = mol
    /\ raw_freeze_list = fl
    /\ raw_remove_list = rl
    /\ freeze_list = fl
    /\ remove_list = rl
    /\ map_type = mt
    /\ num_particles = mol.num_alpha + mol.num_beta
    /\ num_spin_orbitals = mol.num_orbitals * 2
    /\ energy_shift = "unset"
    /\ qubit_reduction = FALSE
    /\ ferOp = <<>>
    /\ qubitOp = <<>>
    /\ HF_state = <<>>
    /\ var_form = <<>>
    /\ pc = "remove_positive"

Init ==
    \/ \E mol \in Molecules :
       \E fl \in SeqsUpTo(RawIndices(mol.num_orbitals), MaxIndices) :
       \E rl \in SeqsUpTo(RawIndices(mol.num_orbitals), MaxIndices - Len(fl)) :
       \E mt \in MapTypes :
          InitInputs(mol, fl, rl, mt)
    \/ InitInputs(NotebookMolecule, NotebookFreezeList, NotebookRemoveList,
                  NotebookMapType)

(* ------------------------------ actions -------------------------------- *)

\* remove_list = [x % molecule.num_orbitals for x in remove_list]
RemovePositive ==
    /\ pc = "remove_positive"
    /\ remove_list' = ToPositive(remove_list, molecule.num_orbitals)
    /\ pc' = "freeze_positive"
    /\ UNCHANGED <<HF_state, var_form>>
    /\ UNCHANGED <<molecule, map_type, raw_freeze_list, raw_remove_list,
                   freeze_list, num_particles, num_spin_orbitals,
                   energy_shift, qubit_reduction, ferOp, qubitOp>>

\* freeze_list = [x % molecule.num_orbitals for x in freeze_list]
FreezePositive ==
    /\ pc = "freeze_positive"
    /\ freeze_list' = ToPositive(freeze_list, molecule.num_orbitals)
    /\ pc' = "remove_shift"
    /\ UNCHANGED <<HF_state, var_form>>
    /\ UNCHANGED <<molecule, map_type, raw_freeze_list, raw_remove_list,
                   remove_list, num_particles, num_spin_orbitals,
                   energy_shift, qubit_reduction, ferOp, qubitOp>>

\* remove_list = [x - len(freeze_list) for x in remove_list]
RemoveShift ==
    /\ pc = "remove_shift"
    /\ remove_list' = ShiftAfterFreezing(remove_list, freeze_list)
    /\ pc' = "remove_mirror"
    /\ UNCHANGED <<HF_state, var_form>>
    /\ UNCHANGED <<molecule, map_type, raw_freeze_list, raw_remove_list,
                   freeze_list, num_particles, num_spin_orbitals,
                   energy_shift, qubit_reduction, ferOp, qubitOp>>

\* remove_list += [x + molecule.num_orbitals - len(freeze_list) for x in remove_list]
RemoveMirror ==
    /\ pc = "remove_mirror"
    /\ remove_list' = MirrorRemoveList(remove_list, freeze_list, molecule.num_orbitals)
    /\ pc' = "freeze_mirror"
    /\ UNCHANGED <<HF_state, var_form>>
    /\ UNCHANGED <<molecule, map_type, raw_freeze_list, raw_remove_list,
                   freeze_list, num_particles, num_spin_orbitals,
                   energy_shift, qubit_reduction, ferOp, qubitOp>>

\* freeze_list += [x + molecule.num_orbitals for x in freeze_list]
FreezeMirror ==
    /\ pc = "freeze_mirror"
    /\ freeze_list' = MirrorFreezeList(freeze_list, molecule.num_orbitals)
    /\ pc' = "setup"
    /\ UNCHANGED <<HF_state, var_form>>
    /\ UNCHANGED <<molecule, map_type, raw_freeze_list, raw_remove_list,
                   remove_list, num_particles, num_spin_orbitals,
                   energy_shift, qubit_reduction, ferOp, qubitOp>>

\* energy_shift = 0.0
\* qubit_reduction = True if map_type == 'parity' else False
\* ferOp = FermionicOperator(h1=h1, h2=h2)
Setup ==
    /\ pc = "setup"
    /\ energy_shift' = "0.0"
    /\ qubit_reduction' = (map_type = "parity")
    /\ ferOp' = <<[op |-> "FermionicOperator", arg |-> <<>>]>>
    /\ pc' = "freezing"
    /\ UNCHANGED <<HF_state, var_form>>
    /\ UNCHANGED <<molecule, map_type, raw_freeze_list, raw_remove_list,
                   freeze_list, remove_list, num_particles, num_spin_orbitals,
                   qubitOp>>

\* a variant that calls the library whatever the length of freeze_list
FreezingUnguarded ==
    /\ pc = "freezing"
    /\ ferOp' = Append(ferOp, [op |-> "fermion_mode_freezing", arg |-> freeze_list])
    /\ \E e \in ShiftValues : energy_shift' = e
    /\ num_spin_orbitals' = num_spin_orbitals - Len(freeze_list)
    /\ num_particles' = num_particles - Len(freeze_list)
    /\ pc' = "elimination"
    /\ UNCHANGED <<HF_state, var_form>>
    /\ UNCHANGED <<molecule, map_type, raw_freeze_list, raw_remove_list,
                   freeze_list, remove_list, qubit_reduction, qubitOp>>

\* a variant that lowers num_particles by one per frozen orbital
FreezingCountsOrbitals ==
    /\ pc = "freezing"
    /\ IF Len(freeze_list) > 0
       THEN /\ ferOp' = Append(ferOp, [op |-> "fermion_mode_freezing", arg |-> freeze_list])
            /\ \E e \in ShiftValues : energy_shift' = e
            /\ num_spin_orbitals' = num_spin_orbitals - Len(freeze_list)
            /\ num_particles' = num_particles - Len(raw_freeze_list)
       ELSE UNCHANGED <<ferOp, energy_shift, num_spin_orbitals, num_particles>>
    /\ pc' = "elimination"
    /\ UNCHANGED <<HF_state, var_form>>
    /\ UNCHANGED <<molecule, map_type, raw_freeze_list, raw_remove_list,
                   freeze_list, remove_list, qubit_reduction, qubitOp>>

\* if len(freeze_list) > 0:
\*     ferOp, energy_shift = ferOp.fermion_mode_freezing(freeze_list)
\*     num_spin_orbitals -= len(freeze_list)
\*     num_particles -= len(freeze_list)
Freezing ==
    /\ pc = "freezing"
    /\ IF Len(freeze_list) > 0
       THEN /\ ferOp' = Append(ferOp, [op |-> "fermion_mode_freezing", arg |-> freeze_list])
            /\ \E e \in ShiftValues : energy_shift' = e
            /\ num_spin_orbitals' = num_spin_orbitals - Len(freeze_list)
            /\ num_particles' = num_particles - Len(freeze_list)
       ELSE UNCHANGED <<ferOp, energy_shift, num_spin_orbitals, num_particles>>
    /\ pc' = "elimination"
    /\ UNCHANGED <<HF_state, var_form>>
    /\ UNCHANGED <<molecule, map_type, raw_freeze_list, raw_remove_list,
                   freeze_list, remove_list, qubit_reduction, qubitOp>>

\* a variant that counts the removed orbitals once instead of once per spin
EliminationCountsOrbitals ==
    /\ pc = "elimination"
    /\ IF Len(remove_list) > 0
       THEN /\ ferOp' = Append(ferOp, [op |-> "fermion_mode_elimination", arg |-> remove_list])
            /\ num_spin_orbitals' = num_spin_orbitals - Len(raw_remove_list)
       ELSE UNCHANGED <<ferOp, num_spin_orbitals>>
    /\ pc' = "mapping"
    /\ UNCHANGED <<HF_state, var_form>>
    /\ UNCHANGED <<molecule, map_type, raw_freeze_list, raw_remove_list,
                   freeze_list, remove_list, num_particles, energy_shift,
                   qubit_reduction, qubitOp>>

\* a variant that eliminates from a freshly built operator, not the frozen one
EliminationOnUnfrozen ==
    /\ pc = "elimination"
    /\ IF Len(remove_list) > 0
       THEN /\ ferOp' = <<[op |-> "FermionicOperator", arg |-> <<>>],
                          [op |-> "fermion_mode_elimination", arg |-> remove_list]>>
            /\ num_spin_orbitals' = num_spin_orbitals - Len(remove_list)
       ELSE UNCHANGED <<ferOp, num_spin_orbitals>>
    /\ pc' = "mapping"
    /\ UNCHANGED <<HF_state, var_form>>
    /\ UNCHANGED <<molecule, map_type, raw_freeze_list, raw_remove_list,
                   freeze_list, remove_list, num_particles, energy_shift,
                   qubit_reduction, qubitOp>>

\* if len(remove_list) > 0:
\*     ferOp = ferOp.fermion_mode_elimination(remove_list)
\*     num_spin_orbitals -= len(remove_list)
Elimination ==
    /\ pc = "elimination"
    /\ IF Len(remove_list) > 0
       THEN /\ ferOp' = Append(ferOp, [op |-> "fermion_mode_elimination", arg |-> remove_list])
            /\ num_spin_orbitals' = num_spin_orbitals - Len(remove_list)
       ELSE UNCHANGED <<ferOp, num_spin_orbitals>>
    /\ pc' = "mapping"
    /\ UNCHANGED <<HF_state, var_form>>
    /\ UNCHANGED <<molecule, map_type, raw_freeze_list, raw_remove_list,
                   freeze_list, remove_list, num_particles, energy_shift,
                   qubit_reduction, qubitOp>>

\* qubitOp = ferOp.mapping(map_type=map_type, threshold=0.00000001)
Mapping ==
    /\ pc = "mapping"
    /\ qubitOp' = Append(ferOp, [op |-> "mapping", arg |-> <<>>])
    /\ pc' = "reduction"
    /\ UNCHANGED <<HF_state, var_form>>
    /\ UNCHANGED <<molecule, map_type, raw_freeze_list, raw_remove_list,
                   freeze_list, remove_list, num_particles, num_spin_orbitals,
                   energy_shift, qubit_reduction, ferOp>>

\* qubitOp = Z2Symmetries.two_qubit_reduction(qubitOp, num_particles)
\*               if qubit_reduction else qubitOp
TwoQubitReduction ==
    /\ pc = "reduction"
    /\ qubitOp' = IF qubit_reduction
                  THEN Append(qubitOp, [op |-> "two_qubit_reduction",
                                        arg |-> <<num_particles>>])
                  ELSE qubitOp
    /\ pc' = "chop"
    /\ UNCHANGED <<HF_state, var_form>>
    /\ UNCHANGED <<molecule, map_type, raw_freeze_list, raw_remove_list,
                   freeze_list, remove_list, num_particles, num_spin_orbitals,
                   energy_shift, qubit_reduction, ferOp>>

\* qubitOp.chop(10**-10)
Chop ==
    /\ pc = "chop"
    /\ qubitOp' = Append(qubitOp, [op |-> "chop", arg |-> <<>>])
    /\ pc' = "done"
    /\ UNCHANGED <<HF_state, var_form>>
    /\ UNCHANGED <<molecule, map_type, raw_freeze_list, raw_remove_list,
                   freeze_list, remove_list, num_particles, num_spin_orbitals,
                   energy_shift, qubit_reduction, ferOp>>

\* HF_state = HartreeFock(num_spin_orbitals, num_particles, map_type,
\*                        qubit_reduction)
HartreeFockState ==
    /\ pc = "done"
    /\ HF_state' = <<[num_orbitals |-> num_spin_orbitals,
                      num_particles |-> num_particles,
                      qubit_mapping |-> map_type,
                      two_qubit_reduction |-> qubit_reduction]>>
    /\ pc' = "uccsd"
    /\ UNCHANGED <<molecule, map_type, raw_freeze_list, raw_remove_list,
                   freeze_list, remove_list, num_particles, num_spin_orbitals,
                   energy_shift, qubit_reduction, ferOp, qubitOp, var_form>>

\* var_form = UCCSD(num_orbitals=num_spin_orbitals, num_particles=num_particles,
\*                  active_occupied=[0], active_unoccupied=[0, 1],
\*                  initial_state=HF_state, qubit_mapping=map_type,
\*                  two_qubit_reduction=qubit_reduction, num_time_slices=1)
UCCSDForm ==
    /\ pc = "uccsd"
    /\ var_form' = <<[num_orbitals |-> num_spin_orbitals,
                      num_particles |-> num_particles,
                      initial_state |-> HF_state,
                      qubit_mapping |-> map_type,
                      two_qubit_reduction |-> qubit_reduction]>>
    /\ pc' = "vqe"
    /\ UNCHANGED <<molecule, map_type, raw_freeze_list, raw_remove_list,
                   freeze_list, remove_list, num_particles, num_spin_orbitals,
                   energy_shift, qubit_reduction, ferOp, qubitOp, HF_state>>

Next ==
    \/ RemovePositive
    \/ FreezePositive
    \/ RemoveShift
    \/ RemoveMirror
    \/ FreezeMirror
    \/ Setup
    \/ Freezing
    \/ Elimination
    \/ Mapping
    \/ TwoQubitReduction
    \/ Chop
    \/ HartreeFockState
    \/ UCCSDForm

Spec == Init /\ [][Next]_vars

(* ------------------------ vocabulary of the claims --------------------- *)

NumOrbitals == molecule.num_orbitals

\* the five normalization statements have all run
Normalized ==
    pc \in {"setup", "freezing", "elimination", "mapping", "reduction", "chop", "done",
            "uccsd", "vqe"}

\* the orbital a raw index names
Orbital(x) == x % NumOrbitals

FrozenOrbitals == {Orbital(x) : x \in Range(raw_freeze_list)}
RemovedOrbitals == {Orbital(x) : x \in Range(raw_remove_list)}

\* the raw lists name distinct, mutually disjoint orbitals
DistinctDisjoint ==
    /\ Cardinality(FrozenOrbitals) = Len(raw_freeze_list)
    /\ Cardinality(RemovedOrbitals) = Len(raw_remove_list)
    /\ FrozenOrbitals \cap RemovedOrbitals = {}

\* position of spin orbital m of the original 2n once the modes of the final
\* freeze_list have been deleted
PostFreezeIndex(m) == m - Cardinality({f \in Range(freeze_list) : f < m})

\* alpha and beta spin orbital of every removed orbital, in post-freeze numbering
ExpectedRemoveModes ==
    {PostFreezeIndex(o) : o \in RemovedOrbitals}
        \cup {PostFreezeIndex(o + NumOrbitals) : o \in RemovedOrbitals}

NoRepeats(list) == Cardinality(Range(list)) = Len(list)

OpNames(log) == [i \in 1..Len(log) |-> log[i].op]

IsPrefix(s, t) == Len(s) <= Len(t) /\ \A i \in 1..Len(s) : s[i] = t[i]

\* the list handed to the library call named op, <<>> when it was not made
Passed(op) ==
    IF \E i \in 1..Len(ferOp) : ferOp[i].op = op
    THEN ferOp[CHOOSE i \in 1..Len(ferOp) : ferOp[i].op = op].arg
    ELSE <<>>

NotebookInputs ==
    /\ molecule = NotebookMolecule
    /\ raw_freeze_list = NotebookFreezeList
    /\ raw_remove_list = NotebookRemoveList
    /\ map_type = NotebookMapType

(* -------------------------------- claims ------------------------------- *)

\* C1 (as claimed): when the raw lists name distinct, mutually disjoint
\* orbitals, the final remove_list names, in the numbering left after the
\* modes of the final freeze_list are deleted, exactly the alpha and the beta
\* spin orbital of every orbital of the raw remove_list.
C1_RemoveIndicesValidAfterFreezing ==
    (Normalized /\ DistinctDisjoint) => Range(remove_list) = ExpectedRemoveModes

\* C2 (as claimed): every element of the final freeze_list and of the final
\* remove_list is non-negative.
C2_FinalIndicesNonNegative ==
    Normalized =>
        /\ \A i \in 1..Len(freeze_list) : freeze_list[i] >= 0
        /\ \A i \in 1..Len(remove_list) : remove_list[i] >= 0

\* C3 (as claimed): for every raw freeze_list and remove_list, each element of
\* the final freeze_list is below 2n and each element of the final remove_list
\* is below 2n minus the length of the final freeze_list.
C3_UpperBoundsAnyLists ==
    Normalized =>
        /\ \A i \in 1..Len(freeze_list) : freeze_list[i] < 2 * NumOrbitals
        /\ \A i \in 1..Len(remove_list) :
              remove_list[i] < 2 * NumOrbitals - Len(freeze_list)

\* C3 (amended): when the raw freeze_list has at most n entries, each element
\* of the final freeze_list is below 2n and each element of the final
\* remove_list is below 2n minus the length of the final freeze_list.
C3_UpperBounds ==
    (Normalized /\ Len(raw_freeze_list) <= NumOrbitals) =>
        /\ \A i \in 1..Len(freeze_list) : freeze_list[i] < 2 * NumOrbitals
        /\ \A i \in 1..Len(remove_list) :
              remove_list[i] < 2 * NumOrbitals - Len(freeze_list)

\* a frozen orbital and a removed last orbital: the beta image of the removed
\* orbital is the last mode left after freezing
C3_Witness ==
    /\ Normalized
    /\ Len(raw_freeze_list) >= 1
    /\ Len(raw_freeze_list) <= NumOrbitals
    /\ \E i \in 1..Len(remove_list) :
          remove_list[i] = 2 * NumOrbitals - Len(freeze_list) - 1
    /\ \E i \in 1..Len(freeze_list) : freeze_list[i] = 2 * NumOrbitals - 1

\* C4: with k the length of the raw freeze_list, the final freeze_list is the
\* k indices x mod n followed by the same indices plus n, the final
\* remove_list is the indices y = (x mod n) - k followed by y + n - k in the
\* same order, and each final list is twice as long as its raw list.
C4_MirroredIntoBothSpinSectors ==
    Normalized =>
        LET n == NumOrbitals
            k == Len(raw_freeze_list)
            r == Len(raw_remove_list)
        IN  /\ Len(freeze_list) = 2 * k
            /\ Len(remove_list) = 2 * r
            /\ \A i \in 1..k :
                  /\ freeze_list[i] = raw_freeze_list[i] % n
                  /\ freeze_list[k + i] = (raw_freeze_list[i] % n) + n
            /\ \A i \in 1..r :
                  /\ remove_list[i] = (raw_remove_list[i] % n) - k
                  /\ remove_list[r + i] = ((raw_remove_list[i] % n) - k) + n - k

\* both lists non-empty, a negative raw index in each
C4_Witness ==
    /\ Normalized
    /\ \E i \in 1..Len(raw_freeze_list) : raw_freeze_list[i] < 0
    /\ \E i \in 1..Len(raw_remove_list) : raw_remove_list[i] < 0
    /\ Len(raw_remove_list) >= 2

\* C5: at the end of the reduction cell num_spin_orbitals is 2 * num_orbitals
\* minus the lengths of the lists that were passed to fermion_mode_freezing
\* and to fermion_mode_elimination.
C5_SpinOrbitalCount ==
    pc = "done" =>
        /\ num_spin_orbitals =
              2 * NumOrbitals - (Len(Passed("fermion_mode_freezing"))
                                   + Len(Passed("fermion_mode_elimination")))
        /\ Passed("fermion_mode_freezing") = freeze_list
        /\ Passed("fermion_mode_elimination") = remove_list

\* a run in which both library calls were made
C5_Witness ==
    /\ pc = "done"
    /\ Len(Passed("fermion_mode_freezing")) > 0
    /\ Len(Passed("fermion_mode_elimination")) > 0
    /\ num_spin_orbitals < 2 * NumOrbitals

\* the order of library calls the reduction cell prescribes for this run
PipelineOrder ==
    <<"FermionicOperator">>
        \o (IF Len(freeze_list) > 0 THEN <<"fermion_mode_freezing">> ELSE <<>>)
        \o (IF Len(remove_list) > 0 THEN <<"fermion_mode_elimination">> ELSE <<>>)
        \o <<"mapping">>
        \o (IF qubit_reduction THEN <<"two_qubit_reduction">> ELSE <<>>)
        \o <<"chop">>

\* C6: in every run the calls on the operator are made in the order
\* freezing (non-empty freeze list), elimination (non-empty remove list),
\* mapping, two-qubit reduction (when enabled), chop; the finished qubit
\* operator went through exactly these calls, and elimination is only ever
\* applied to an operator that has been through freezing.
C6_PipelineOrderFixed ==
    Normalized =>
        /\ IsPrefix(OpNames(ferOp), PipelineOrder)
        /\ IsPrefix(OpNames(qubitOp), PipelineOrder)
        /\ qubitOp # <<>> => IsPrefix(ferOp, qubitOp)
        /\ pc = "done" => OpNames(qubitOp) = PipelineOrder
        /\ \A i \in 1..Len(qubitOp) :
              (qubitOp[i].op = "fermion_mode_elimination" /\ Len(freeze_list) > 0)
                  => \E j \in 1..(i - 1) : qubitOp[j].op = "fermion_mode_freezing"
        /\ \A i \in 1..Len(ferOp) :
              (ferOp[i].op = "fermion_mode_elimination" /\ Len(freeze_list) > 0)
                  => \E j \in 1..(i - 1) : ferOp[j].op = "fermion_mode_freezing"

\* a finished run that froze, eliminated, mapped, reduced and chopped
C6_Witness ==
    /\ pc = "done"
    /\ OpNames(qubitOp) = <<"FermionicOperator", "fermion_mode_freezing",
                            "fermion_mode_elimination", "mapping",
                            "two_qubit_reduction", "chop">>

\* what holds in every state of a run whose raw freeze_list is empty
C7_EmptyFreezeState ==
    raw_freeze_list = <<>> =>
        /\ \A i \in 1..Len(ferOp) : ferOp[i].op # "fermion_mode_freezing"
        /\ energy_shift \in {"unset", "0.0"}
        /\ pc \in {"elimination", "mapping", "reduction", "chop", "done",
                    "uccsd", "vqe"}
              => energy_shift = "0.0"
        /\ Normalized =>
              \A i \in 1..Len(raw_remove_list) :
                  remove_list[i] = raw_remove_list[i] % NumOrbitals

\* what holds in every state of a run whose raw remove_list is empty
C7_EmptyRemoveState ==
    raw_remove_list = <<>> =>
        \A i \in 1..Len(ferOp) : ferOp[i].op # "fermion_mode_elimination"

\* the freezing step of a run with an empty raw freeze_list
C7_EmptyFreezeStep ==
    (pc = "freezing" /\ raw_freeze_list = <<>>) =>
        /\ num_particles' = num_particles
        /\ num_spin_orbitals' = num_spin_orbitals
        /\ energy_shift' = energy_shift
        /\ ferOp' = ferOp

\* the elimination step of a run with an empty raw remove_list
C7_EmptyRemoveStep ==
    (pc = "elimination" /\ raw_remove_list = <<>>) =>
        /\ num_spin_orbitals' = num_spin_orbitals
        /\ ferOp' = ferOp

\* C7: empty lists are no-ops.  With an empty raw freeze_list,
\* fermion_mode_freezing is never invoked, energy_shift stays 0.0, the
\* freezing step changes neither num_particles nor num_spin_orbitals, and the
\* remove indices get no downward shift; with an empty raw remove_list,
\* fermion_mode_elimination is never invoked and the elimination step does not
\* change num_spin_orbitals.
C7_EmptyListsAreNoOps ==
    /\ [](C7_EmptyFreezeState /\ C7_EmptyRemoveState)
    /\ [][C7_EmptyFreezeStep /\ C7_EmptyRemoveStep]_vars

\* a finished run with nothing to freeze and something to remove
C7_Witness ==
    /\ pc = "done"
    /\ raw_freeze_list = <<>>
    /\ Len(raw_remove_list) > 0
    /\ energy_shift = "0.0"
    /\ num_particles = molecule.num_alpha + molecule.num_beta

\* a finished run with something to freeze and nothing to remove
C7_WitnessEmptyRemove ==
    /\ pc = "done"
    /\ raw_remove_list = <<>>
    /\ Len(raw_freeze_list) > 0
    /\ num_spin_orbitals = 2 * NumOrbitals - Len(freeze_list)

\* C9: for the notebook's inputs normalization yields freeze_list = [0, 6] and
\* remove_list = [2, 3, 7, 8]; at the end of the reduction cell
\* num_spin_orbitals is 6 and num_particles is 2, the two-qubit reduction was
\* handed num_particles = 2, and the 6 spin orbitals less the two reduced
\* qubits are the 4 qubits of the recorded output.
C9_NotebookRun ==
    NotebookInputs =>
        /\ Normalized =>
              /\ freeze_list = <<0, 6>>
              /\ remove_list = <<2, 3, 7, 8>>
        /\ pc = "done" =>
              /\ num_spin_orbitals = 6
              /\ num_particles = 2
              /\ qubit_reduction
              /\ \E i \in 1..Len(qubitOp) :
                    qubitOp[i] = [op |-> "two_qubit_reduction", arg |-> <<2>>]
              /\ num_spin_orbitals - 2 = 4

\* the notebook's run has finished
C9_Witness ==
    /\ NotebookInputs
    /\ pc = "done"
    /\ Len(qubitOp) = 6

\* C10 (as claimed): when the raw lists name distinct, mutually disjoint
\* orbitals, neither final list contains a repeated index.
C10_NoRepeatedIndex ==
    (Normalized /\ DistinctDisjoint) =>
        /\ NoRepeats(freeze_list)
        /\ NoRepeats(remove_list)

\* the freezing block has run
Frozen == pc \in {"elimination", "mapping", "reduction", "chop", "done", "uccsd", "vqe"}

InitialParticles == molecule.num_alpha + molecule.num_beta

\* num_particles and num_spin_orbitals as handed to HartreeFock and to UCCSD
HandedCountersInRange ==
    /\ \A i \in 1..Len(HF_state) :
          /\ 0 <= HF_state[i].num_particles
          /\ HF_state[i].num_particles <= HF_state[i].num_orbitals
    /\ \A i \in 1..Len(var_form) :
          /\ 0 <= var_form[i].num_particles
          /\ var_form[i].num_particles <= var_form[i].num_orbitals

\* from the end of the freezing block on (so across elimination and up to
\* the two constructors) num_particles is its initial value less the length
\* of the final freeze_list, which is two per raw freeze index
ParticlesLoweredByFreezingOnly ==
    /\ Frozen =>
          /\ num_particles = InitialParticles - Len(freeze_list)
          /\ num_particles = InitialParticles - 2 * Len(raw_freeze_list)
    /\ \A i \in 1..Len(HF_state) : HF_state[i].num_particles = num_particles
    /\ \A i \in 1..Len(var_form) : var_form[i].num_particles = num_particles

\* C11 (as claimed): for raw lists of distinct in-range orbitals the counters
\* handed to HartreeFock and UCCSD satisfy 0 <= num_particles <=
\* num_spin_orbitals; freezing lowers num_particles by the length of the
\* final freeze_list (two per frozen orbital) and elimination leaves it
\* unchanged.
C11_ParticleCountersAnyLists ==
    DistinctDisjoint => (HandedCountersInRange /\ ParticlesLoweredByFreezingOnly)

\* no more orbitals are frozen than electrons can fill, and no more removed
\* than are left empty
WithinOccupation ==
    /\ 2 * Len(raw_freeze_list) <= InitialParticles
    /\ InitialParticles + 2 * Len(raw_remove_list) <= 2 * NumOrbitals

\* C11 (amended): for raw lists of distinct in-range orbitals, freezing
\* lowers num_particles by the length of the final freeze_list (two per
\* frozen orbital) and elimination leaves it unchanged; the counters handed
\* to HartreeFock and UCCSD satisfy 0 <= num_particles <= num_spin_orbitals
\* when twice the number of frozen orbitals is at most the electron count
\* and the electron count plus twice the number of removed orbitals is at
\* most twice the orbital count.
C11_ParticleCounters ==
    DistinctDisjoint =>
        /\ ParticlesLoweredByFreezingOnly
        /\ WithinOccupation => HandedCountersInRange

\* both constructors were handed counters after a run that froze an occupied
\* orbital and removed an empty one
C11_Witness ==
    /\ pc = "vqe"
    /\ DistinctDisjoint
    /\ WithinOccupation
    /\ Len(raw_freeze_list) >= 1
    /\ Len(raw_remove_list) >= 1
    /\ var_form[1].num_particles = InitialParticles - 2 * Len(raw_freeze_list)
    /\ var_form[1].initial_state = HF_state

====
